---------------------------- MODULE Spec2Model ----------------------------
(***************************************************************************)
(* A model of src/main.py: the Projectile class (construction and the      *)
(* fixed-step integrator step()) and the scene kept by ProjectileApp       *)
(* (spawn_projectile, clear_all, update, the pause key and the click       *)
(* hit-test of handle_events, with world_to_screen).                       *)
(*                                                                         *)
(* Python floats are modelled in fixed point, every quantity in a unit     *)
(* that makes the drag-free integration exact:                             *)
(*     time          1e-6 s    (dt = 0.01 s = 10000)                       *)
(*     position      1e-6 m                                                *)
(*     velocity      1e-4 m/s  (x += vx*dt  is  x + vx)                    *)
(*     acceleration  1e-2 m/s2 (vx += ax*dt is  vx + ax; g = 981)          *)
(*     mass          1e-6 kg                                               *)
(*     area          1e-8 m2                                               *)
(*     force         1e-6 N                                                *)
(*     field values  1e-4      (what TextField.get_value returns)          *)
(* Products and quotients are exact integer operations truncated toward    *)
(* zero (the floats round to nearest); infinities and NaN are outside the  *)
(* modelled range.  A starting height of 1e30 m or more is the one value   *)
(* FAR, which no step's displacement changes.                              *)
(***************************************************************************)
EXTENDS Integers, Sequences, FiniteSets, TLC

VARIABLES projectiles, is_playing, selected_index, error, last

vars == <<projectiles, is_playing, selected_index, error, last>>

-----------------------------------------------------------------------------
(* Bounds of the exploration.                                              *)

\* Most projectiles in the scene at once.
MaxProjectiles == 2

\* Most samples a trajectory holds before stepping stops being explored.
MaxSamples == 6

\* Most step() calls explored on a projectile that has already landed.
MaxRepeat == 2

-----------------------------------------------------------------------------
(* Program constants, in the units above.                                  *)

G_EARTH == 981

\* 0.5 * AIR_DENSITY * DRAG_COEFF = 0.287875, at scale 1e-6.
HALF_RHO_CD == 287875

\* self.dt = 0.01 s.
DT == 10000

\* The fallback area 0.01 m2.
AREA_FALLBACK == 1000000

\* The mass floor 0.0001 kg of spawn_projectile.
MASS_FLOOR == 100

\* The default extents 10.0 m and 5.0 m of world_to_screen.
DEFAULT_MAX_X == 10000000

DEFAULT_MAX_Y == 5000000

\* The floor 1e-3 m of the extents.
MIN_EXTENT == 1000

BASE_W == 1600

\* The display the program runs on (pygame.display.Info()).
SCREEN_W == 2000

SCREEN_H == 1000

\* Python's None, where an index 0, 1, ... is the other value.
None == -1

-----------------------------------------------------------------------------
(* Float arithmetic in fixed point.                                        *)

MaxInt == 2147483647

\* The scale of a pure ratio (frac, a unit vector component, cos, sin).
ONE == 1000000

\* The one value that stands for every height of 1e30 m and beyond, which
\* y += vy*dt leaves as it is: half the spacing of the floats at 1e30 is
\* 7.0e13 m, and a step's displacement stays under 1.2e13 m, because a vy
\* that gravity has brought to 2^50 m/s in size no longer changes
\* (vy - 0.0981 rounds back to vy there).
FAR == 1500000000

Abs(a) == IF a < 0 THEN -a ELSE a

Sgn(a) == IF a < 0 THEN -1 ELSE 1

Max2(a, b) == IF b > a THEN b ELSE a

Min2(a, b) == IF b < a THEN b ELSE a

\* <<q, m>> with a*b = q*c + m and 0 <= m < c, for 0 <= a < c, without
\* forming the product: b is taken three bits at a time.
RECURSIVE MulMod(_, _, _)
MulMod(a, b, c) ==
    IF b = 0 THEN <<0, 0>>
    ELSE LET h  == MulMod(a, b \div 8, c)
             m2 == 8 * h[2] + (b % 8) * a
         IN  <<8 * h[1] + (m2 \div c), m2 % c>>

\* floor(a*b/c) for a, b >= 0 and c > 0.
MulDivU(a, b, c) ==
    IF a = 0 \/ b <= MaxInt \div a
    THEN (a * b) \div c
    ELSE (a \div c) * b + MulMod(a % c, b, c)[1]

\* a*b/c truncated toward zero, c # 0.
MulDiv(a, b, c) ==
    Sgn(a) * Sgn(b) * Sgn(c) * MulDivU(Abs(a), Abs(b), Abs(c))

\* The largest s with s*s <= n.
RECURSIVE ISqrt(_)
ISqrt(n) ==
    IF n < 2 THEN n
    ELSE LET s == 2 * ISqrt(n \div 4)
         IN  IF (s + 1) * (s + 1) <= n THEN s + 1 ELSE s

\* The largest r with r*r*r <= n.
RECURSIVE ICbrt(_)
ICbrt(n) ==
    IF n < 2 THEN n
    ELSE LET r == 2 * ICbrt(n \div 8)
         IN  IF (r + 1) * (r + 1) * (r + 1) <= n THEN r + 1 ELSE r

\* The power of ten that brings a and b under 30000, so that the squares add
\* up without overflow.
RECURSIVE HypotScale(_)
HypotScale(m) == IF m <= 30000 THEN 1 ELSE 10 * HypotScale(m \div 10)

\* math.hypot(a, b).
hypot(a, b) ==
    LET k == HypotScale(Max2(Abs(a), Abs(b)))
        p == Abs(a) \div k
        q == Abs(b) \div k
    IN  k * ISqrt(p * p + q * q)

\* clamp() that lets its argument through unclamped.
clamp_none(v, a, b) == v

\* clamp(v, a, b) = max(a, min(b, v)).
clamp(v, a, b) == Max2(a, Min2(b, v))

\* math.cos and math.sin of math.radians(deg), deg a field value (1e-4
\* degree), for the launch angles of the exploration; at scale ONE.
cos_deg(deg) ==
    CASE deg = 0        -> ONE
      [] deg = 900000   -> 0
      [] deg = -900000  -> 0
      [] deg = 600000   -> 500000
      [] deg = 1800000  -> -ONE

sin_deg(deg) ==
    CASE deg = 0        -> 0
      [] deg = 900000   -> ONE
      [] deg = -900000  -> -ONE
      [] deg = 600000   -> 866025
      [] deg = 1800000  -> 0

-----------------------------------------------------------------------------
(* Projectile.                                                             *)

\* The area of the unit-density sphere of the given mass, lines 83-91:
\* volume = mass/1000, radius = (3*volume/(4*pi))^(1/3), area = pi*radius^2.
\* The volume is in 1e-9 m3 (the mass's number), the radius in 1e-5 m: the
\* cube root is taken of 3*volume/(4*pi) = volume * 0.238732 in 1e-15 m3,
\* or of a thousandth of it, times ten, where that would overflow.
area_of(mass) ==
    LET volume == mass
    IN  IF volume <= 0 THEN AREA_FALLBACK
        ELSE LET cube   == IF volume <= 8000
                           THEN <<volume * 238732, 1>>
                           ELSE <<MulDiv(volume, 238732, 1000), 10>>
                 radius == cube[2] * ICbrt(cube[1])
             IN  MulDiv(radius * radius, 31416, 1000000)

\* Projectile.__init__(angle_deg, speed, mass, y0, air_resistance).
Projectile(angle_deg, speed, mass, y0, air_resistance) ==
    [ angle       |-> angle_deg,
      v0          |-> speed,
      mass        |-> mass,
      y0          |-> y0,
      air         |-> air_resistance,
      vx          |-> MulDiv(speed, cos_deg(angle_deg), ONE),
      vy          |-> MulDiv(speed, sin_deg(angle_deg), ONE),
      x           |-> 0,
      y           |-> y0,
      t           |-> 0,
      trajectory  |-> << <<0, 0, y0>> >>,
      landed      |-> FALSE,
      max_height  |-> y0,
      final_speed |-> 0,
      flight_time |-> 0,
      range       |-> 0,
      area        |-> area_of(mass) ]

\* a/b at scale ONE (b # 0); a quotient beyond 2 in size is kept as 2 with
\* its sign, which is all its later clamp to [0, 1] reads.
FixDiv(a, b) ==
    IF Abs(a) >= 2 * Abs(b) THEN Sgn(a) * Sgn(b) * 2 * ONE
    ELSE MulDiv(a, ONE, b)

\* drag_force = 0.5 * AIR_DENSITY * DRAG_COEFF * area * v * v (line 103).
drag_force(p, v) ==
    MulDiv(MulDiv(MulDiv(HALF_RHO_CD, p.area, ONE), v, 100000), v, 100000)

\* Whether step() raises ZeroDivisionError: the drag branch divides by
\* self.mass (lines 104-105).
step_raises(p) ==
    /\ ~p.landed
    /\ p.air /\ hypot(p.vx, p.vy) > 0
    /\ p.mass = 0

\* <<ax, ay>> of lines 100-108, for a step that does not raise.
acceleration(p) ==
    LET v == hypot(p.vx, p.vy)
    IN  IF p.air /\ v > 0
        THEN LET f  == drag_force(p, v)
                 ax == -MulDiv(MulDiv(f, MulDiv(p.vx, ONE, v), ONE), 100, p.mass)
                 ay == -MulDiv(MulDiv(f, MulDiv(p.vy, ONE, v), ONE), 100, p.mass)
                       - G_EARTH
             IN  <<ax, ay>>
        ELSE <<0, -G_EARTH>>

\* The interpolation of the landing branch, lines 127-135, on the
\* projectile q that holds the new sample: <<t_land, x_land>>.
landing(q) ==
    LET n      == Len(q.trajectory)
        s2     == q.trajectory[n]
        s1     == q.trajectory[n - 1]
        t2     == s2[1]
        x2     == s2[2]
        y2     == s2[3]
        t1     == s1[1]
        x1     == s1[2]
        y1     == s1[3]
        frac0  == IF y2 = y1 THEN 0 ELSE FixDiv(0 - y1, y2 - y1)
        frac   == clamp(frac0, 0, ONE)
        t_land == t1 + MulDiv(frac, t2 - t1, ONE)
        x_land == x1 + MulDiv(frac, x2 - x1, ONE)
    IN  <<t_land, x_land>>

\* land() that overwrites the sample before the new one.
land_overwrites_previous(q) ==
    LET n == Len(q.trajectory)
        l == landing(q)
    IN  [q EXCEPT !.flight_time = l[1],
                  !.range       = l[2],
                  !.final_speed = hypot(q.vx, q.vy),
                  !.landed      = TRUE,
                  !.trajectory  = [q.trajectory EXCEPT ![n - 1] = <<l[1], l[2], 0>>]]

\* The landing branch of step(), lines 125-143: the metrics, the flag and
\* the last sample pinned to the ground.
land(q) ==
    LET n == Len(q.trajectory)
        l == landing(q)
    IN  [q EXCEPT !.flight_time = l[1],
                  !.range       = l[2],
                  !.final_speed = hypot(q.vx, q.vy),
                  !.landed      = TRUE,
                  !.trajectory  = [q.trajectory EXCEPT ![n] = <<l[1], l[2], 0>>]]

\* self.y += self.vy * self.dt (line 115), d being vy*dt: a y that is FAR
\* rounds back to itself.
add_y(y, d) == IF y = FAR THEN FAR ELSE y + d

\* integrate() that advances the position with the velocity of before the
\* step (x += vx*dt ahead of vx += ax*dt).
integrate_old_velocity(p) ==
    LET a  == acceleration(p)
        vx == p.vx + a[1]
        vy == p.vy + a[2]
        x  == p.x + p.vx
        y  == add_y(p.y, p.vy)
        t  == p.t + DT
        q  == [p EXCEPT !.vx = vx, !.vy = vy, !.x = x, !.y = y, !.t = t,
                        !.trajectory = Append(p.trajectory, <<t, x, y>>),
                        !.max_height = IF y > p.max_height THEN y
                                       ELSE p.max_height]
    IN  IF y <= 0 THEN land(q) ELSE q

\* integrate() that leaves max_height as construction set it.
integrate_keeps_max_height(p) ==
    LET a  == acceleration(p)
        vx == p.vx + a[1]
        vy == p.vy + a[2]
        x  == p.x + vx
        y  == add_y(p.y, vy)
        t  == p.t + DT
        q  == [p EXCEPT !.vx = vx, !.vy = vy, !.x = x, !.y = y, !.t = t,
                        !.trajectory = Append(p.trajectory, <<t, x, y>>)]
    IN  IF y <= 0 THEN land(q) ELSE q

\* Lines 97-143 of step(): the Euler step, the new sample, the running
\* maximum and the landing check, for a step that does not raise.
integrate(p) ==
    LET a  == acceleration(p)
        vx == p.vx + a[1]
        vy == p.vy + a[2]
        x  == p.x + vx
        y  == add_y(p.y, vy)
        t  == p.t + DT
        q  == [p EXCEPT !.vx = vx, !.vy = vy, !.x = x, !.y = y, !.t = t,
                        !.trajectory = Append(p.trajectory, <<t, x, y>>),
                        !.max_height = IF y > p.max_height THEN y
                                       ELSE p.max_height]
    IN  IF y <= 0 THEN land(q) ELSE q

\* step() without its guard on landed: it integrates a landed projectile too.
step_unguarded(p) == integrate(p)

\* Projectile.step(), lines 93-143, when it does not raise.
step(p) == IF p.landed THEN p ELSE integrate(p)

-----------------------------------------------------------------------------
(* TextField.get_value: float(self.text), 0.0 when float() raises.  A text *)
(* is the sequence of its characters.                                      *)

Digits == {"0", "1", "2", "3", "4", "5", "6", "7", "8", "9"}

DigitVal(c) ==
    CASE c = "0" -> 0 [] c = "1" -> 1 [] c = "2" -> 2 [] c = "3" -> 3
      [] c = "4" -> 4 [] c = "5" -> 5 [] c = "6" -> 6 [] c = "7" -> 7
      [] c = "8" -> 8 [] c = "9" -> 9

\* The number a sequence of digits writes.
RECURSIVE DigitsValue(_)
DigitsValue(ds) ==
    IF Len(ds) = 0 THEN 0
    ELSE 10 * DigitsValue(SubSeq(ds, 1, Len(ds) - 1)) + DigitVal(ds[Len(ds)])

\* Whether float(text) accepts the text, for the texts the field can hold
\* (handle_event lets in digits, one '.', and a '-' in first place): an
\* optional sign, then digits with at most one point and at least one digit.
is_float(text) ==
    LET body == IF Len(text) > 0 /\ text[1] = "-" THEN Tail(text) ELSE text
    IN  /\ \A i \in DOMAIN body : body[i] \in Digits \cup {"."}
        /\ Cardinality({i \in DOMAIN body : body[i] = "."}) <= 1
        /\ \E i \in DOMAIN body : body[i] \in Digits

\* float(text) of an accepted text, in 1e-4 (further decimals dropped).
float_of(text) ==
    LET neg  == text[1] = "-"
        body == IF neg THEN Tail(text) ELSE text
        dots == {i \in DOMAIN body : body[i] = "."}
        dot  == IF dots = {} THEN Len(body) + 1 ELSE CHOOSE i \in dots : TRUE
        int  == SubSeq(body, 1, dot - 1)
        dec  == SubSeq(body, dot + 1, Len(body))
        dec4 == SubSeq(dec \o <<"0", "0", "0", "0">>, 1, 4)
        mag  == 10000 * DigitsValue(int) + DigitsValue(dec4)
    IN  IF neg THEN -mag ELSE mag

get_value(text) == IF is_float(text) THEN float_of(text) ELSE 0

\* Whether float(text) is 1e30 or more: no sign, a first digit that is not
\* 0, and more than 30 digits before the point.
is_far(text) ==
    /\ is_float(text)
    /\ text[1] \in Digits \ {"0"}
    /\ \A i \in 1..31 : i <= Len(text) /\ text[i] \in Digits

\* max(0.0, self.height_field.get_value()) (line 360), in 1e-6 m.
start_height(text) ==
    IF is_far(text) THEN FAR ELSE Max2(0, get_value(text) * 100)

-----------------------------------------------------------------------------
(* ProjectileApp: layout, bounds and the world-to-screen map.              *)

\* WIDTH = int(SCREEN_W * 0.9), HEIGHT = int(SCREEN_H * 0.9).
WIDTH == (SCREEN_W * 9) \div 10

HEIGHT == (SCREEN_H * 9) \div 10

\* int(k * self.scale), self.scale = self.width / BASE_W.
Scaled(k) == (k * WIDTH) \div BASE_W

\* self.graph_rect = <<gx, gy, gw, gh>> of layout().
graph_rect ==
    LET panel_w == Scaled(320)
        panel_x == Scaled(30)
        gx      == panel_x + panel_w + Scaled(30)
        gy      == Scaled(80)
        gw      == WIDTH - gx - Scaled(30)
        gh      == HEIGHT - gy - Scaled(80)
    IN  <<gx, gy, gw, gh>>

\* graph_rect.collidepoint((mx, my)).
collidepoint(r, mx, my) ==
    /\ r[1] <= mx /\ mx < r[1] + r[3]
    /\ r[2] <= my /\ my < r[2] + r[4]

\* The largest of m and the k-th coordinate of every sample of every
\* trajectory (the scan of lines 471-474).
RECURSIVE scan_max(_, _, _, _, _)
scan_max(ps, k, i, j, m) ==
    IF i > Len(ps) THEN m
    ELSE IF j > Len(ps[i].trajectory) THEN scan_max(ps, k, i + 1, 1, m)
    ELSE LET c == ps[i].trajectory[j][k]
         IN  scan_max(ps, k, i, j + 1, IF c > m THEN c ELSE m)

\* compute_bounds() that leaves the landed projectiles out of the scan.
compute_bounds_skip_landed(ps) ==
    LET fl    == SelectSeq(ps, LAMBDA p : ~p.landed)
        max_x == scan_max(fl, 2, 1, 1, DEFAULT_MAX_X)
        max_y == scan_max(fl, 3, 1, 1, DEFAULT_MAX_Y)
    IN  <<Max2(MulDiv(max_x, 12, 10), MIN_EXTENT),
          Max2(MulDiv(max_y, 12, 10), MIN_EXTENT)>>

\* <<max_x, max_y>> of world_to_screen, lines 469-480: the extents of all
\* trajectories over the defaults, padded by 1.2 and floored.
compute_bounds(ps) ==
    LET max_x == scan_max(ps, 2, 1, 1, DEFAULT_MAX_X)
        max_y == scan_max(ps, 3, 1, 1, DEFAULT_MAX_Y)
    IN  <<Max2(MulDiv(max_x, 12, 10), MIN_EXTENT),
          Max2(MulDiv(max_y, 12, 10), MIN_EXTENT)>>

\* <<q, m>> with a*b = q*c + m and 0 <= m < c, for a, b >= 0 and c > 0.
MulDivRem(a, b, c) ==
    LET h == MulMod(a % c, b, c)
    IN  <<(a \div c) * b + h[1], h[2]>>

\* int(g + s*a*b/c) for a, b >= 0, c > 0 and s = 1 or -1: Python's int()
\* drops the fraction toward zero.
IntOfSum(g, s, a, b, c) ==
    LET qm == MulDivRem(a, b, c)
    IN  IF s > 0 \/ qm[2] = 0
        THEN IF g + s * qm[1] >= 0 \/ qm[2] = 0 THEN g + s * qm[1]
             ELSE g + qm[1] + 1
        ELSE IF g - qm[1] - 1 >= 0 THEN g - qm[1] - 1 ELSE g - qm[1]

\* The linear map of world_to_screen, lines 482-486, under the bounds b.
to_screen(b, x_m, y_m) ==
    LET gx == graph_rect[1]
        gy == graph_rect[2]
        gw == graph_rect[3]
        gh == graph_rect[4]
        sx == IntOfSum(gx, Sgn(x_m), Abs(x_m), gw, b[1])
        sy == IntOfSum(gy + gh, -Sgn(y_m), Abs(y_m), gh, b[2])
    IN  <<sx, sy>>

\* world_to_screen(x_m, y_m), lines 465-486.
world_to_screen(ps, x_m, y_m) == to_screen(compute_bounds(ps), x_m, y_m)

\* d < 12 * self.scale for d = sqrt(d2): d2 * BASE_W^2 < 144 * width^2.
within_radius(d2) == d2 <= (144 * WIDTH * WIDTH - 1) \div (BASE_W * BASE_W)

\* The selection loop with d <= nr_dist for d < nr_dist: of the samples at
\* the least distance the last one wins.
RECURSIVE nearest_last_tie(_, _, _, _, _, _, _, _)
nearest_last_tie(ps, b, mx, my, i, j, nr2, sel_idx) ==
    IF i > Len(ps) THEN sel_idx
    ELSE IF j > Len(ps[i].trajectory)
    THEN nearest_last_tie(ps, b, mx, my, i + 1, 1, nr2, sel_idx)
    ELSE LET smp == ps[i].trajectory[j]
             s   == to_screen(b, smp[2], smp[3])
             d2  == (s[1] - mx) * (s[1] - mx) + (s[2] - my) * (s[2] - my)
         IN  IF d2 <= nr2 /\ within_radius(d2)
             THEN nearest_last_tie(ps, b, mx, my, i, j + 1, d2, i - 1)
             ELSE nearest_last_tie(ps, b, mx, my, i, j + 1, nr2, sel_idx)

\* The selection loop of handle_events, lines 435-446, from sample j of
\* projectile i on: nr2 is nr_dist squared, and b the bounds, which every
\* world_to_screen call of the loop computes anew from the same projectiles.
RECURSIVE nearest(_, _, _, _, _, _, _, _)
nearest(ps, b, mx, my, i, j, nr2, sel_idx) ==
    IF i > Len(ps) THEN sel_idx
    ELSE IF j > Len(ps[i].trajectory)
    THEN nearest(ps, b, mx, my, i + 1, 1, nr2, sel_idx)
    ELSE LET smp == ps[i].trajectory[j]
             s   == to_screen(b, smp[2], smp[3])
             d2  == (s[1] - mx) * (s[1] - mx) + (s[2] - my) * (s[2] - my)
         IN  IF d2 < nr2 /\ within_radius(d2)
             THEN nearest(ps, b, mx, my, i, j + 1, d2, i - 1)
             ELSE nearest(ps, b, mx, my, i, j + 1, nr2, sel_idx)

\* sel_idx of a MOUSEBUTTONDOWN at (mx, my) inside the graph, lines 431-446
\* (nr_dist starts at 9999).
hit_test(ps, mx, my) ==
    nearest(ps, compute_bounds(ps), mx, my, 1, 1, 9999 * 9999, None)

\* The loop of update(), lines 452-455, from projectile i on: <<projectiles,
\* error>>; a step() that raises ends the loop with the projectiles before
\* it stepped.
RECURSIVE update_from(_, _)
update_from(ps, i) ==
    IF i > Len(ps) THEN <<ps, "none">>
    ELSE IF ~ps[i].landed
    THEN IF step_raises(ps[i]) THEN <<ps, "ZeroDivisionError">>
         ELSE update_from([ps EXCEPT ![i] = step(ps[i])], i + 1)
    ELSE update_from(ps, i + 1)

-----------------------------------------------------------------------------
(* The inputs of the exploration.                                          *)

\* What the four text fields and the toggle hold at a click on Launch:
\* <<angle, speed, mass, height, air>>.
LaunchInputs ==
    { <<<<"0">>, <<"6", "0", "0">>, <<"1">>, <<".", "0", "0", "5">>, FALSE>>,
      <<<<".">>, <<"5", "0", "0">>, <<"0">>, <<"0">>, TRUE>>,
      <<<<"9", "0">>, <<"5", "0", "0">>, <<"-">>, <<"-", "3">>, TRUE>>,
      <<<<"9", "0">>, <<".", "2">>, <<"-", "2">>, <<>>, FALSE>> }

\* The positions of the mouse clicks: beside the origin of the graph, in
\* its middle, and just left of the graph, outside it but within the
\* selection radius of the origin.
ClickPoints == { <<430, 805>>, <<1000, 400>>, <<424, 808>> }

\* n zeros.
RECURSIVE Zeros(_)
Zeros(n) == IF n = 0 THEN <<>> ELSE <<"0">> \o Zeros(n - 1)

\* The field texts of the launches whose flights are followed step by step:
\* flights of three, one and four steps, and one from a height of 1e30 m.
FlightInputs ==
    { <<<<"0">>, <<"6", "0", "0">>, <<"1">>, <<".", "0", "0", "5">>, FALSE>>,
      <<<<".">>, <<"5", "0", "0">>, <<"0">>, <<"0">>, TRUE>>,
      <<<<"9", "0">>, <<".", "2">>, <<"-", "2">>, <<>>, FALSE>>,
      <<<<"0">>, <<"2", "5">>, <<"1">>, <<"1">> \o Zeros(30), FALSE>> }

\* The arguments of a direct Projectile(...) call.
DirectAngles == {0, 900000, -900000}

DirectSpeeds == {0, 981, 2000, 5000000}

DirectMasses == {0, 100, 1000000, -2000000}

DirectHeights == {0, 5000, -3000}

-----------------------------------------------------------------------------
(* The state machine.  last records the operation that led to the state:   *)
(* its name, the projectile index or count it concerned, and the bounds    *)
(* before it; for a mouse click also pos, the position of the click.       *)

Op(name, idx, n) ==
    [op |-> name, idx |-> idx, n |-> n, pre |-> compute_bounds(projectiles)]

Init ==
    /\ projectiles = <<>>
    /\ is_playing = TRUE
    /\ selected_index = None
    /\ error = "none"
    /\ last = [op |-> "init", idx |-> 0, n |-> 0, pre |-> <<0, 0>>]

\* spawn_projectile() that selects len(self.projectiles), one past the end.
spawn_selects_past_end(angle_text, speed_text, mass_text, height_text, air) ==
    LET angle == get_value(angle_text)
        speed == get_value(speed_text)
        mass  == Max2(MASS_FLOOR, get_value(mass_text) * 100)
        h0    == start_height(height_text)
        p     == Projectile(angle, speed, mass, h0, air)
    IN  /\ projectiles' = Append(projectiles, p)
        /\ selected_index' = Len(projectiles')

\* spawn_projectile() that passes the mass field's value on unfloored.
spawn_no_mass_floor(angle_text, speed_text, mass_text, height_text, air) ==
    LET angle == get_value(angle_text)
        speed == get_value(speed_text)
        mass  == get_value(mass_text) * 100
        h0    == start_height(height_text)
        p     == Projectile(angle, speed, mass, h0, air)
    IN  /\ projectiles' = Append(projectiles, p)
        /\ selected_index' = Len(projectiles') - 1

\* spawn_projectile(), lines 356-364, on a click on Launch.
spawn_projectile(angle_text, speed_text, mass_text, height_text, air) ==
    LET angle == get_value(angle_text)
        speed == get_value(speed_text)
        mass  == Max2(MASS_FLOOR, get_value(mass_text) * 100)
        h0    == start_height(height_text)
        p     == Projectile(angle, speed, mass, h0, air)
    IN  /\ projectiles' = Append(projectiles, p)
        /\ selected_index' = Len(projectiles') - 1

Launch ==
    /\ error = "none"
    /\ Len(projectiles) < MaxProjectiles
    /\ \E in \in LaunchInputs : spawn_projectile(in[1], in[2], in[3], in[4], in[5])
    /\ last' = Op("spawn_projectile", Len(projectiles), 0)
    /\ UNCHANGED <<is_playing, error>>

\* clear_all() that leaves selected_index as it is.
clear_all_keeps_selection ==
    /\ projectiles' = <<>>
    /\ UNCHANGED selected_index

\* clear_all(), lines 366-368, on a click on Clear All.
clear_all ==
    /\ projectiles' = <<>>
    /\ selected_index' = None

ClearAll ==
    /\ error = "none"
    /\ clear_all
    /\ last' = Op("clear_all", 0, Len(projectiles))
    /\ UNCHANGED <<is_playing, error>>

\* K_SPACE in handle_events, lines 411-413.
TogglePause ==
    /\ error = "none"
    /\ is_playing' = ~is_playing
    /\ last' = Op("pause", 0, 0)
    /\ UNCHANGED <<projectiles, selected_index, error>>

\* A MOUSEBUTTONDOWN away from the buttons, lines 431-448.
Click ==
    /\ error = "none"
    /\ \E c \in ClickPoints :
          \E sel_idx \in {IF collidepoint(graph_rect, c[1], c[2])
                         THEN hit_test(projectiles, c[1], c[2]) ELSE None} :
              /\ selected_index' = IF sel_idx # None THEN sel_idx
                                   ELSE selected_index
              /\ last' = Op("click", IF sel_idx = None THEN -1 ELSE sel_idx, 0)
                          @@ [pos |-> c]
    /\ UNCHANGED <<projectiles, is_playing, error>>

\* update() that steps the projectiles whether playing or paused.
update_ignores_pause ==
    LET r == update_from(projectiles, 1)
    IN  projectiles' = r[1] /\ error' = r[2]

\* update(), lines 450-455, once per frame.
update ==
    IF is_playing
    THEN LET r == update_from(projectiles, 1)
         IN  projectiles' = r[1] /\ error' = r[2]
    ELSE UNCHANGED <<projectiles, error>>

Update ==
    /\ error = "none"
    /\ is_playing =>
          \A i \in DOMAIN projectiles :
              projectiles[i].landed \/ Len(projectiles[i].trajectory) < MaxSamples
    /\ update
    /\ last' = Op("update", 0, IF is_playing THEN 1 ELSE 0)
    /\ UNCHANGED <<is_playing, selected_index>>

Next == Launch \/ ClearAll \/ TogglePause \/ Click \/ Update

Spec == Init /\ [][Next]_vars

-----------------------------------------------------------------------------
(* The frame loop of run(), lines 621-625, with the launches, clears,      *)
(* pauses and updates that decide how the flights end.                     *)

LaunchFlight ==
    /\ error = "none"
    /\ Len(projectiles) < MaxProjectiles
    /\ \E in \in FlightInputs :
          spawn_projectile(in[1], in[2], in[3], in[4], in[5])
    /\ last' = Op("spawn_projectile", Len(projectiles), 0)
    /\ UNCHANGED <<is_playing, error>>

NextFlights == LaunchFlight \/ ClearAll \/ TogglePause \/ Update

SpecFlights == Init /\ [][NextFlights]_vars

-----------------------------------------------------------------------------
(* The Projectile class called directly: one object is constructed with    *)
(* any arguments and step() is called on it, also after it has landed.     *)

Construct ==
    /\ Len(projectiles) = 0
    /\ \E a \in DirectAngles, v \in DirectSpeeds, m \in DirectMasses,
          h \in DirectHeights, air \in BOOLEAN :
          projectiles' = <<Projectile(a, v, m, h, air)>>
    /\ last' = Op("Projectile", 0, 0)
    /\ UNCHANGED <<is_playing, selected_index, error>>

\* p.step() on projectile i (counted from 0); last.n counts the calls made
\* on it since it landed.
StepCall ==
    /\ \E i \in DOMAIN projectiles :
          LET p    == projectiles[i]
              rep  == IF last.op = "step" /\ last.idx = i - 1 THEN last.n ELSE 0
          IN  /\ p.landed => rep < MaxRepeat
              /\ ~p.landed => Len(p.trajectory) < MaxSamples
              /\ IF step_raises(p)
                 THEN error' = "ZeroDivisionError" /\ UNCHANGED projectiles
                 ELSE error' = "none"
                      /\ projectiles' = [projectiles EXCEPT ![i] = step(p)]
              /\ last' = Op("step", i - 1, IF p.landed THEN rep + 1 ELSE 0)
    /\ UNCHANGED <<is_playing, selected_index>>

NextP == Construct \/ StepCall

SpecP == Init /\ [][NextP]_vars

-----------------------------------------------------------------------------
(* Properties.                                                             *)

\* The last sample of a trajectory.
LastSample(p) == p.trajectory[Len(p.trajectory)]

\* C1: a step() call on a projectile whose landed flag is true changes
\* nothing: position, velocity, elapsed time, metrics, the landed flag and
\* the trajectory are as before, and no error is raised, call after call.
C1_StepOnLandedIsNoOp ==
    [][\A i \in DOMAIN projectiles :
          (last'.op = "step" /\ last'.idx = i - 1 /\ projectiles[i].landed)
              => /\ projectiles' = projectiles
                 /\ error' = error]_vars

\* C1 happens: step() has been called twice on a projectile that had landed
\* after a flight of several samples.
C1_Witness ==
    /\ last.op = "step" /\ last.n >= 2
    /\ Len(projectiles) = 1
    /\ projectiles[1].landed
    /\ Len(projectiles[1].trajectory) >= 3

\* C2: once a projectile has landed, in the landing state and ever after,
\* its last sample has y = 0 and its flight_time lies between the time of
\* the sample recorded before the landing step and the time of the landing
\* step's raw sample (self.t, which landing leaves alone).
C2_LandingInvariant ==
    \A i \in DOMAIN projectiles :
        LET p == projectiles[i]
            n == Len(p.trajectory)
        IN  p.landed =>
                /\ n >= 2
                /\ LastSample(p)[3] = 0
                /\ p.trajectory[n - 1][1] <= p.flight_time
                /\ p.flight_time <= p.t
                /\ p.t = p.trajectory[n - 1][1] + DT

\* C2 happens: a landed projectile whose landing was interpolated strictly
\* inside the last interval, seen again after a further step() call.
C2_Witness ==
    /\ last.op = "step" /\ last.n >= 1
    /\ \E i \in DOMAIN projectiles :
          LET p == projectiles[i]
          IN  /\ p.landed
              /\ p.trajectory[Len(p.trajectory) - 1][1] < p.flight_time
              /\ p.flight_time < p.t
\* A step of the system keeps every recorded sample of every projectile it
\* keeps: trajectories only grow at their end.  (clear_all drops the
\* projectiles themselves.)
AppendOnly ==
    last'.op # "clear_all" =>
        /\ Len(projectiles') >= Len(projectiles)
        /\ \A i \in DOMAIN projectiles :
              LET old == projectiles[i].trajectory
                  new == projectiles'[i].trajectory
              IN  /\ Len(new) >= Len(old)
                  /\ SubSeq(new, 1, Len(old)) = old

\* Every sample's time is greater than the time of the sample before it.
TimesStrictlyIncrease ==
    \A i \in DOMAIN projectiles :
        LET tr == projectiles[i].trajectory
        IN  \A k \in 2..Len(tr) : tr[k][1] > tr[k - 1][1]

\* Every sample's time is at least the time of the sample before it, and
\* greater for every sample but the landing sample of a landed projectile.
TimesIncrease ==
    \A i \in DOMAIN projectiles :
        LET p  == projectiles[i]
            tr == p.trajectory
        IN  \A k \in 2..Len(tr) :
                /\ tr[k][1] >= tr[k - 1][1]
                /\ (k < Len(tr) \/ ~p.landed) => tr[k][1] > tr[k - 1][1]

\* C3 as stated: each trajectory is append-only, and every sample's time is
\* greater than the time of the sample before it.
C3_Original == []TimesStrictlyIncrease /\ [][AppendOnly]_vars

\* C3 as amended: each trajectory is append-only, and every sample's time is
\* greater than or equal to the time of the sample before it, greater for
\* every sample but the landing one (whose interpolated time is the previous
\* sample's time when frac is 0).
C3_AppendOnlyTimesIncrease == []TimesIncrease /\ [][AppendOnly]_vars

\* C3 happens: a projectile has flown several steps and landed, its landing
\* sample written over the raw one.
C3_Witness ==
    \E i \in DOMAIN projectiles :
        LET p == projectiles[i]
        IN  /\ p.landed
            /\ Len(p.trajectory) >= 4
            /\ LastSample(p)[1] < p.t
\* C4: selected_index is None or an index into projectiles, after every
\* sequence of launches, clears, update ticks, pause toggles and clicks.
C4_SelectedIndexValid ==
    \/ selected_index = None
    \/ 0 <= selected_index /\ selected_index < Len(projectiles)

\* C4 happens: with two projectiles in the scene, a click has moved the
\* selection from the one launched last to the first.
C4_Witness ==
    /\ last.op = "click" /\ last.idx = 0
    /\ selected_index = 0
    /\ Len(projectiles) = 2

\* C5 as stated: neither construction nor step() ever raises, whatever the
\* mass, the air-resistance flag and the velocity.
C5_NeverRaises == error = "none"

\* C6: every projectile of the scene has mass >= 0.0001 kg and starting
\* height >= 0, whatever the fields held, so no step of it divides by zero
\* and update() never raises.
C6_SpawnFloors ==
    /\ error = "none"
    /\ \A i \in DOMAIN projectiles :
          /\ projectiles[i].mass >= 100
          /\ projectiles[i].y0 >= 0
          /\ ~step_raises(projectiles[i])

\* C6 happens: a projectile launched with air resistance from a zero,
\* negative or malformed mass field and a negative height field has been
\* stepped through the drag branch.
C6_Witness ==
    /\ last.op = "update"
    /\ \E i \in DOMAIN projectiles :
          LET p == projectiles[i]
          IN  /\ p.mass = 100 /\ p.air /\ p.y0 = 0
              /\ Len(p.trajectory) >= 3
              /\ p.vy # 0

\* C7: no operation but clear_all lowers the bounds: after an update tick
\* (and a launch, a click, a pause toggle) max_x and max_y are at least what
\* they were before it, also in the tick in which a projectile lands.
C7_BoundsMonotone ==
    last.op \in {"update", "spawn_projectile", "click", "pause"} =>
        /\ compute_bounds(projectiles)[1] >= last.pre[1]
        /\ compute_bounds(projectiles)[2] >= last.pre[2]

\* C7 happens: an update tick in which a projectile landed has raised
\* max_x, the landing sample being the farthest one.
C7_Witness ==
    /\ last.op = "update"
    /\ compute_bounds(projectiles)[1] > last.pre[1]
    /\ \E i \in DOMAIN projectiles :
          LET p == projectiles[i]
          IN  /\ p.landed
              /\ LastSample(p)[2] < p.x
              /\ compute_bounds(projectiles)[1] = MulDiv(LastSample(p)[2], 12, 10)

\* C8: after clear_all() on a non-empty scene there are no projectiles, no
\* selection, and the bounds are the padded defaults 12.0 m and 6.0 m.
C8_ClearAllResets ==
    (last.op = "clear_all" /\ last.n > 0) =>
        /\ Len(projectiles) = 0
        /\ selected_index = None
        /\ compute_bounds(projectiles) = <<12000000, 6000000>>

\* C8 happens: clear_all() has emptied a scene of two projectiles whose
\* trajectories had pushed both bounds beyond the defaults.
C8_Witness ==
    /\ last.op = "clear_all" /\ last.n = 2
    /\ last.pre[1] > 12000000
    /\ last.pre[2] > 6000000

\* C9: an update() while playing gives every projectile that was not landed
\* exactly one step (one more sample, the clock dt further, the earlier
\* samples kept) and leaves every landed one as it was; an update() while
\* paused leaves every projectile as it was.
C9_UpdateStepsOnce ==
    [][last'.op = "update" =>
          /\ Len(projectiles') = Len(projectiles)
          /\ \A i \in DOMAIN projectiles :
                LET p == projectiles[i]
                    q == projectiles'[i]
                IN  IF is_playing /\ ~p.landed
                    THEN /\ Len(q.trajectory) = Len(p.trajectory) + 1
                         /\ SubSeq(q.trajectory, 1, Len(p.trajectory)) = p.trajectory
                         /\ q.t = p.t + DT
                    ELSE q = p]_vars

\* C9 happens: an update() while playing has stepped a flying projectile
\* beside one that had landed in an earlier tick (its clock stopped behind).
C9_Witness ==
    /\ last.op = "update" /\ last.n = 1
    /\ \E i, j \in DOMAIN projectiles :
          /\ i < j
          /\ projectiles[i].landed
          /\ ~projectiles[j].landed
          /\ projectiles[i].t < projectiles[j].t

\* C10: a step() with air resistance off, or at speed 0, leaves vx as it is
\* and lowers vy by g*dt = 0.0981 m/s, then advances the position by the new
\* velocity; so without air resistance vx is v0*cos(angle) all along,
\* whatever the mass.
C10_PureGravity ==
    /\ [](\A i \in DOMAIN projectiles :
             LET p == projectiles[i]
             IN  ~p.air =>
                    /\ p.vx = MulDiv(p.v0, cos_deg(p.angle), ONE)
                    /\ p.vy = MulDiv(p.v0, sin_deg(p.angle), ONE)
                                - 981 * (p.t \div DT))
    /\ [][\A i \in DOMAIN projectiles :
             LET p == projectiles[i]
                 q == projectiles'[i]
             IN  ( /\ last'.op = "step" /\ last'.idx = i - 1
                   /\ ~p.landed
                   /\ ~p.air \/ (p.vx = 0 /\ p.vy = 0) )
                 => /\ q.vx = p.vx
                    /\ q.vy = p.vy - 981
                    /\ q.x = p.x + q.vx
                    /\ q.y = p.y + q.vy]_vars

\* C10 happens: a projectile of mass 0 without air resistance has been
\* stepped twice at a horizontal speed other than 0.
C10_Witness ==
    /\ last.op = "step"
    /\ \E i \in DOMAIN projectiles :
          LET p == projectiles[i]
          IN  /\ ~p.air /\ p.mass = 0 /\ p.vx # 0
              /\ Len(p.trajectory) >= 3


\* The samples of ps as <<projectile, sample>> positions, both counted from 1.
SamplePositions(ps) ==
    UNION { { <<i, j>> : j \in DOMAIN ps[i].trajectory } : i \in DOMAIN ps }

\* The squared screen distance from sample j of projectile i to (mx, my),
\* under the bounds b.
Dist2(ps, b, i, j, mx, my) ==
    LET smp == ps[i].trajectory[j]
        s   == to_screen(b, smp[2], smp[3])
    IN  (s[1] - mx) * (s[1] - mx) + (s[2] - my) * (s[2] - my)

\* The samples closer to (mx, my) than the radius, as <<i, j, distance^2>>.
InRadius(ps, mx, my) ==
    LET b == compute_bounds(ps)
        D == { <<q[1], q[2], Dist2(ps, b, q[1], q[2], mx, my)>> :
                 q \in SamplePositions(ps) }
    IN  { e \in D : within_radius(e[3]) }

\* e comes before f in iteration order: projectile first, then sample.
Before(e, f) == e[1] < f[1] \/ (e[1] = f[1] /\ e[2] <= f[2])

\* C11: a click inside the graph selects the projectile owning the sample at
\* the least screen distance among those closer than the radius, the first of
\* them in iteration order on a tie; a click with no sample within the
\* radius, or outside the graph, leaves selected_index as it was.
C11_ClickSelectsNearest ==
    [][last'.op = "click" =>
          \E near \in { InRadius(projectiles, last'.pos[1], last'.pos[2]) } :
              IF collidepoint(graph_rect, last'.pos[1], last'.pos[2])
                 /\ near # {}
              THEN \E m \in near :
                      /\ \A o \in near :
                            m[3] < o[3] \/ (m[3] = o[3] /\ Before(m, o))
                      /\ selected_index' = m[1] - 1
              ELSE selected_index' = selected_index]_vars

\* C11 happens: a click inside the graph has selected the first of two
\* projectiles, both of which own a sample at the least distance.
C11_Witness ==
    /\ last.op = "click"
    /\ collidepoint(graph_rect, last.pos[1], last.pos[2])
    /\ Len(projectiles) = 2
    /\ selected_index = 0
    /\ \E near \in { InRadius(projectiles, last.pos[1], last.pos[2]) } :
          \E m \in near, o \in near :
              /\ m[1] = 1 /\ o[1] = 2 /\ m[3] = o[3]
              /\ \A e \in near : m[3] <= e[3]


\* The greatest y of the samples of a trajectory from sample j on, over m.
RECURSIVE MaxY(_, _, _)
MaxY(tr, j, m) ==
    IF j > Len(tr) THEN m
    ELSE MaxY(tr, j + 1, IF tr[j][3] > m THEN tr[j][3] ELSE m)

\* flight_time, range and final_speed of p are the 0.0 of construction.
TimeRangeSpeedUnset(p) ==
    p.flight_time = 0 /\ p.range = 0 /\ p.final_speed = 0

\* C12 as stated: a projectile that has not landed has all four metrics at
\* their construction values: max_height at y0, the other three at 0.0.
C12_Original ==
    \A i \in DOMAIN projectiles :
        LET p == projectiles[i]
        IN  ~p.landed => TimeRangeSpeedUnset(p) /\ p.max_height = p.y0

\* C12 as amended: a projectile that has not landed has flight_time, range
\* and final_speed at 0.0, and max_height at the greatest y recorded so far
\* (y0 at construction); a landed one has flight_time and range at the time
\* and x of its landing sample and final_speed at the size of its velocity.
C12_MetricsUntilLanding ==
    \A i \in DOMAIN projectiles :
        LET p == projectiles[i]
        IN  /\ ~p.landed =>
                  /\ TimeRangeSpeedUnset(p)
                  /\ p.max_height = MaxY(p.trajectory, 1, p.y0)
            /\ p.landed =>
                  /\ p.flight_time = LastSample(p)[1]
                  /\ p.range = LastSample(p)[2]
                  /\ p.final_speed = hypot(p.vx, p.vy)
            /\ p.max_height >= p.y0

\* C12 happens: a projectile in flight after two steps or more, higher than
\* it started, with max_height above y0.
C12_Witness ==
    \E i \in DOMAIN projectiles :
        LET p == projectiles[i]
        IN  /\ ~p.landed
            /\ Len(p.trajectory) >= 3
            /\ p.max_height > p.y0
            /\ TimeRangeSpeedUnset(p)


\* landed is set by the first step whose new y is <= 0 and by no earlier one:
\* a landed projectile has stepped to a y <= 0, and the samples a flying one
\* has recorded since construction are all above 0.
LandedAtFirstCrossing ==
    \A i \in DOMAIN projectiles :
        LET p == projectiles[i]
        IN  /\ p.landed => Len(p.trajectory) >= 2 /\ p.y <= 0
            /\ ~p.landed =>
                  \A j \in 2..Len(p.trajectory) : p.trajectory[j][3] > 0

\* p is in flight and falling, and the two steps it has made or more have
\* left it at the height it started from, which no step changes.
Stranded(p) ==
    /\ ~p.landed
    /\ p.vy < 0
    /\ Len(p.trajectory) >= 3
    /\ p.y = FAR
    /\ \A j \in DOMAIN p.trajectory : p.trajectory[j][3] = p.y0

\* A stranded projectile stays stranded for as long as it is in the scene:
\* step() decides the landing by y alone (line 125), and no step changes
\* its y.
StrandedForGood ==
    [][\A i \in DOMAIN projectiles :
          Stranded(projectiles[i]) /\ i \in DOMAIN projectiles'
              => Stranded(projectiles'[i])]_vars

\* C13 as stated, in the form a finite run refutes: every projectile lands in
\* the end whatever its launch angle, speed, starting height >= 0 and air
\* setting, so none is ever stranded, in flight at a height that the steps
\* to come all leave as it is; and landed is set by the first step whose
\* new y is <= 0, never earlier.
C13_EveryProjectileLands ==
    /\ \A i \in DOMAIN projectiles : ~Stranded(projectiles[i])
    /\ LandedAtFirstCrossing

\* The flights that start below 1e30 m are over within the steps followed.
NearFlightsLand ==
    \A i \in DOMAIN projectiles :
        LET p == projectiles[i]
        IN  p.y0 # FAR /\ Len(p.trajectory) >= 5 => p.landed

=============================================================================
